---- MODULE Spec2Model ----
(***************************************************************************)
(* Model of src/backend/backend.py: class BankBackend, a ledger kept in a *)
(* SQLite file through Python's sqlite3 module.                            *)
(*                                                                         *)
(* A backend is one BankBackend object with its own connection self.conn; *)
(* several backends may be opened on the same database file.  A method is *)
(* modelled as a sequence of steps, one per SQL statement, so that faults, *)
(* interruptions and other connections can act between two statements.     *)
(*                                                                         *)
(* sqlite3 semantics used (Python's default, isolation_level = ""):        *)
(*   - a SELECT runs outside any transaction and holds no lock once its    *)
(*     row has been fetched;                                               *)
(*   - the first INSERT/UPDATE of a connection that is not in a            *)
(*     transaction is preceded by an implicit BEGIN and takes the          *)
(*     database-wide RESERVED lock; the connection then works on a         *)
(*     private copy until commit() or rollback();                          *)
(*   - a writer that finds the lock taken waits; when the wait exceeds the *)
(*     connection's timeout, sqlite3.OperationalError is raised.           *)
(*                                                                         *)
(* Amounts and balances are whole numbers, which the REAL columns and      *)
(* Python's floats hold exactly; DepositReal and WithdrawReal follow the    *)
(* same statements on decimal fractions, in IEEE 754 double arithmetic.     *)
(* The column name is read by no operation and is left out of the rows.     *)
(* date_time is the reading of the wall clock: isoformat() strings of equal *)
(* layout compare as the instants they denote.                              *)
(***************************************************************************)
EXTENDS Integers, Sequences, FiniteSets, TLC

\* ---------------------------------------------------------------- bounds
MaxAccounts == 2
MaxTx == 3
MaxAmount == 2
ConcAccounts == 1
ConcTx == 2
CancelTx == 2
MaxCancel == 1
ReadTx == 2
MaxClock == 1
MaxOps == 5
MaxTenths == 9

\* arguments the calls are tried with; "Gold" is an action_type the CHECK
\* constraint of the customer table rejects
Backends == {1, 2}
Mobiles == {"m1", "m2"}
Emails == {"e1", "e2"}
ActionTypes == {"Savings", "Gold"}
Pins == {1234, 4321}
Limits == {0 - 1, 0, 1, 10}
Amounts == (0 - 1) .. MaxAmount
AccountNos == 1 .. (MaxAccounts + 1)

VARIABLES
    db,              \* committed content of the database file
    reserved,        \* backend holding the RESERVED lock, 0 when free
    in_transaction,  \* in_transaction[b]: self.conn.in_transaction
    work,            \* work[b]: the database as seen inside b's transaction
    pc,              \* pc[b]: position of backend b inside its current call
    frame,           \* frame[b]: arguments and locals of the current call
    ret,             \* ret[b]: outcome of the call once pc[b] = "done"
    start,           \* start[b]: database as b saw it when the call began
    cancelled,       \* number of calls abandoned by their caller so far
    conn,            \* conn[b]: self.conn, "open" or "none"
    real,            \* an account whose amounts are decimal fractions: its
                     \* balance column (REAL) and the last deposit/withdraw
    last             \* the last history the caller received, while no
                     \* create_account, deposit or withdraw has run since

vars ==
    <<db, reserved, in_transaction, work, pc, frame, ret, start, cancelled,
      conn, last, real>>

\* ------------------------------------------------------------ the tables
EmptyDB == [customer |-> <<>>, transactions |-> <<>>]

\* CHECK(action_type IN ('Savings', 'Current')), customer table
ValidActionType(action_type) == action_type \in {"Savings", "Current"}

\* mobile_no TEXT UNIQUE, email TEXT UNIQUE
UniqueViolation_EmailOnly(d, mobile_no, email) ==
    \E i \in 1 .. Len(d.customer) : d.customer[i].email = email

UniqueViolation(d, mobile_no, email) ==
    \E i \in 1 .. Len(d.customer) :
        \/ d.customer[i].mobile_no = mobile_no
        \/ d.customer[i].email = email

\* account_no INTEGER PRIMARY KEY AUTOINCREMENT: rows are never deleted and
\* a failed or rolled back INSERT does not consume a number
NextAccountNo(d) == Len(d.customer) + 1

\* id INTEGER PRIMARY KEY AUTOINCREMENT of transactions
NextTxId_One(d) == 1

NextTxId(d) == Len(d.transactions) + 1

\* str(pin): the decimal numeral of an integer PIN
Str(pin) == ToString(pin)

\* hashlib.sha256(text.encode()).hexdigest(): a digest that identifies the
\* text it was computed from (no collisions)
Sha256(text) == <<"sha256", text>>

\* pin_hash = hashlib.sha256(str(pin).encode()).hexdigest()
PinHash(pin) == Sha256(Str(pin))

\* INSERT INTO customer (...) VALUES (?, ?, ?, ?, ?, 0.00)
InsertCustomer(d, mobile_no, email, pin_hash, action_type) ==
    [d EXCEPT !.customer = Append(@,
        [account_no |-> NextAccountNo(d), mobile_no |-> mobile_no,
         email |-> email, pin_hash |-> pin_hash,
         action_type |-> action_type, balance |-> 0])]

\* SELECT balance FROM customer WHERE account_no = ? ; fetchone()
HasAccount(d, account_no) == account_no \in 1 .. Len(d.customer)

SelectBalance(d, account_no) == d.customer[account_no].balance

\* UPDATE customer SET balance = ? WHERE account_no = ?
UpdateBalance_NoWhere(d, account_no, new_balance) ==
    [d EXCEPT !.customer =
        [i \in 1 .. Len(d.customer) |->
            [d.customer[i] EXCEPT !.balance = new_balance]]]

UpdateBalance(d, account_no, new_balance) ==
    IF HasAccount(d, account_no)
    THEN [d EXCEPT !.customer[account_no].balance = new_balance]
    ELSE d

\* INSERT INTO transactions (account_no, action_type, amount, balance_after,
\* date_time)
InsertTransaction(d, account_no, action_type, amount, balance_after, date_time) ==
    [d EXCEPT !.transactions = Append(@,
        [id |-> NextTxId(d), account_no |-> account_no,
         action_type |-> action_type, amount |-> amount,
         balance_after |-> balance_after, date_time |-> date_time])]

\* --------------------------------------------------- connection handling
\* what a statement of backend b reads
View(b) == IF in_transaction[b] THEN work[b] ELSE db

\* an INSERT or UPDATE of backend b that leaves the database as d: implicit
\* BEGIN when needed, RESERVED lock, change kept in the private copy
ExecuteWrite(b, d) ==
    /\ reserved \in {0, b}
    /\ reserved' = b
    /\ in_transaction' = [in_transaction EXCEPT ![b] = TRUE]
    /\ work' = [work EXCEPT ![b] = d]
    /\ UNCHANGED db

EndTransaction(b) ==
    /\ reserved' = IF reserved = b THEN 0 ELSE reserved
    /\ in_transaction' = [in_transaction EXCEPT ![b] = FALSE]
    /\ work' = [work EXCEPT ![b] = EmptyDB]

\* self.conn.commit()
Commit(b) ==
    /\ db' = View(b)
    /\ EndTransaction(b)

\* self.conn.rollback()
Rollback_Keep(b) == UNCHANGED <<db, reserved, in_transaction, work>>

Rollback(b) ==
    /\ UNCHANGED db
    /\ EndTransaction(b)

\* ------------------------------------------------------ calls and frames
NoFrame ==
    [op |-> "", account_no |-> 0, amount |-> 0, mobile_no |-> "",
     email |-> "", pin |-> 0, action_type |-> "", result |-> 0,
     new_balance |-> 0, date_time |-> 0, limit |-> 0, rows |-> <<>>,
     raised |-> "", reopened |-> FALSE, again |-> FALSE, before |-> <<>>]

NoLast == [valid |-> FALSE, account_no |-> 0, limit |-> 0, rows |-> <<>>]

NoRet == [kind |-> "", val |-> 0]
None == [kind |-> "None", val |-> 0]
Value(v) == [kind |-> "value", val |-> v]
Raise == [kind |-> "raise", val |-> 0]
Bool(v) == [kind |-> "bool", val |-> IF v THEN 1 ELSE 0]
Rows == [kind |-> "rows", val |-> 0]

\* if self.conn is None: self.conn = sqlite3.connect(self.db_path)
LazyConnect_Skip(c) == c

LazyConnect(c) == IF c = "none" THEN "open" ELSE c

\* backend b is called with the arguments of frame f.  A call that goes on
\* to position p connects when self.conn is None and opens a cursor, which
\* raises AttributeError when self.conn is still None; a call that returns r
\* at once (p = "done") does not touch self.conn
Enter(b, f, p, r) ==
    /\ pc[b] = "idle"
    /\ start' = [start EXCEPT ![b] = View(b)]
    /\ UNCHANGED <<cancelled, real>>
    /\ last' = IF f.op \in {"create_account", "deposit", "withdraw"} /\ p # "done"
               THEN NoLast ELSE last
    /\ IF p = "done"
       THEN /\ frame' = [frame EXCEPT ![b] = f]
            /\ pc' = [pc EXCEPT ![b] = "done"]
            /\ ret' = [ret EXCEPT ![b] = r]
            /\ UNCHANGED conn
       ELSE LET c == LazyConnect(conn[b]) IN
            /\ conn' = [conn EXCEPT ![b] = c]
            /\ frame' = [frame EXCEPT ![b] =
                   [f EXCEPT !.reopened = (conn[b] = "none" /\ c = "open")]]
            /\ pc' = [pc EXCEPT ![b] = IF c = "open" THEN p ELSE "done"]
            /\ ret' = [ret EXCEPT ![b] = IF c = "open" THEN r ELSE Raise]

Goto(b, p) ==
    /\ pc' = [pc EXCEPT ![b] = p]
    /\ UNCHANGED <<cancelled, conn, last, real>>

Finish(b, r) ==
    /\ pc' = [pc EXCEPT ![b] = "done"]
    /\ ret' = [ret EXCEPT ![b] = r]
    /\ UNCHANGED <<cancelled, conn, real>>
    /\ last' = IF r = Rows
               THEN [valid |-> TRUE, account_no |-> frame[b].account_no,
                     limit |-> frame[b].limit, rows |-> frame'[b].rows]
               ELSE last

NoDbChange == UNCHANGED <<db, reserved, in_transaction, work>>

\* ------------------------------------------------- REAL (IEEE 754 double)
\* The balance column is REAL and the amounts are Python floats.  A double
\* below 2 that is a multiple of 2^-56 is written <<hi, lo>>, for the value
\* (hi * 2^28 + lo) * 2^-56 with 0 <= lo < 2^28; every sum and difference of
\* such doubles is again a multiple of 2^-56 and is rounded to 53 significant
\* bits, ties to even.  Decimal amounts are counted in tenths.
Tenths == {1, 2, 3}

Limb == 2 ^ 28

Norm(hi, lo) == <<hi + lo \div Limb, lo % Limb>>

\* the spacing of the doubles around hi * 2^28, in units of 2^-56
Quantum(hi) ==
    IF hi >= 2 ^ 28 THEN 16
    ELSE IF hi >= 2 ^ 27 THEN 8
    ELSE IF hi >= 2 ^ 26 THEN 4
    ELSE IF hi >= 2 ^ 25 THEN 2
    ELSE 1

\* the double nearest to (n[1] * 2^28 + n[2] + num / den) * 2^-56
RoundNearestEven(n, num, den) ==
    LET q == Quantum(n[1])
        r == n[2] % q
        down == n[2] - r
        twice == 2 * (r * den + num)
        up == \/ twice > q * den
              \/ twice = q * den /\ (down \div q) % 2 = 1
    IN  IF up THEN Norm(n[1], down + q) ELSE <<n[1], down>>

\* floor(r * 2^28 / 10) and the remainder
ScaleTenth(r) ==
    LET t == r * (2 ^ 14)
        u == (t % 10) * (2 ^ 14)
    IN  <<(t \div 10) * (2 ^ 14) + u \div 10, u % 10>>

\* the float of a decimal literal: the double nearest to tenths / 10
Double(tenths) ==
    LET h == ScaleTenth(tenths)
        l == ScaleTenth(h[2])
    IN  RoundNearestEven(<<h[1], l[1]>>, l[2], 10)

\* x + y of two floats
FloatAdd(x, y) ==
    RoundNearestEven(Norm(x[1] + y[1], x[2] + y[2]), 0, 1)

\* x - y of two floats, x >= y
FloatSub(x, y) ==
    RoundNearestEven(IF x[2] < y[2]
                     THEN <<x[1] - y[1] - 1, x[2] - y[2] + Limb>>
                     ELSE <<x[1] - y[1], x[2] - y[2]>>, 0, 1)

\* x < y of two floats
FloatLess(x, y) == x[1] < y[1] \/ (x[1] = y[1] /\ x[2] < y[2])

\* balance: the REAL column; exact: the balance in tenths that the same
\* accepted calls give in decimal arithmetic; op, amount, before, ret: the
\* last call, the exact balance it found and what it returned
NoReal ==
    [balance |-> <<0, 0>>, exact |-> 0, ops |-> 0, op |-> "", amount |-> 0,
     before |-> 0, ret |-> ""]

Init ==
    /\ db = EmptyDB
    /\ reserved = 0
    /\ in_transaction = [b \in Backends |-> FALSE]
    /\ work = [b \in Backends |-> EmptyDB]
    /\ pc = [b \in Backends |-> "idle"]
    /\ frame = [b \in Backends |-> NoFrame]
    /\ ret = [b \in Backends |-> NoRet]
    /\ start = [b \in Backends |-> EmptyDB]
    /\ cancelled = 0
    /\ conn = [b \in Backends |-> "open"]
    /\ last = NoLast
    /\ real = NoReal

\* the caller has received the outcome; the backend is ready for a new call
Return(b) ==
    /\ pc[b] = "done"
    /\ pc' = [pc EXCEPT ![b] = "idle"]
    /\ frame' = [frame EXCEPT ![b] = NoFrame]
    /\ ret' = [ret EXCEPT ![b] = NoRet]
    /\ start' = [start EXCEPT ![b] = EmptyDB]
    /\ UNCHANGED <<cancelled, conn, last, real>>
    /\ NoDbChange

\* ------------------------------------------------------------------- close
\* if self.conn: self.conn.close() ; self.conn = None.  Closing a connection
\* discards its uncommitted changes
Close(b) ==
    /\ pc[b] = "idle"
    /\ frame' = [frame EXCEPT ![b] =
           [NoFrame EXCEPT !.op = "close",
                           !.result = IF conn[b] = "open" THEN 1 ELSE 0]]
    /\ start' = [start EXCEPT ![b] = View(b)]
    /\ pc' = [pc EXCEPT ![b] = "done"]
    /\ ret' = [ret EXCEPT ![b] = None]
    /\ UNCHANGED <<cancelled, last, real>>
    /\ IF conn[b] = "open"
       THEN /\ Rollback(b)
            /\ conn' = [conn EXCEPT ![b] = "none"]
       ELSE /\ NoDbChange
            /\ UNCHANGED conn

\* --------------------------------------------------------- create_account
CreateAccountCall(b, mobile_no, email, pin, action_type) ==
    /\ Enter(b, [NoFrame EXCEPT !.op = "create_account",
                     !.mobile_no = mobile_no, !.email = email, !.pin = pin,
                     !.action_type = action_type], "ca_insert", NoRet)
    /\ NoDbChange

\* cursor.execute(INSERT INTO customer ...): sqlite3.IntegrityError on a
\* UNIQUE or CHECK violation is caught: rollback, return None
CreateAccountInsert(b) ==
    /\ pc[b] = "ca_insert"
    /\ reserved \in {0, b}
    /\ LET f == frame[b] IN
       IF \/ UniqueViolation(View(b), f.mobile_no, f.email)
          \/ ~ValidActionType(f.action_type)
       THEN /\ Rollback(b)
            /\ Finish(b, None)
            /\ UNCHANGED <<frame, start>>
       ELSE /\ ExecuteWrite(b, InsertCustomer(View(b), f.mobile_no, f.email,
                                              PinHash(f.pin), f.action_type))
            /\ frame' = [frame EXCEPT ![b].account_no = NextAccountNo(View(b))]
            /\ Goto(b, "ca_commit")
            /\ UNCHANGED <<ret, start>>

CreateAccountCommit(b) ==
    /\ pc[b] = "ca_commit"
    /\ Commit(b)
    /\ Finish(b, Value(frame[b].account_no))
    /\ UNCHANGED <<frame, start>>

\* the INSERT waits for the RESERVED lock of another connection longer than
\* the connection's timeout: sqlite3.OperationalError, which the handler for
\* sqlite3.IntegrityError does not catch
CreateAccountLocked(b) ==
    /\ pc[b] = "ca_insert"
    /\ reserved \notin {0, b}
    /\ frame' = [frame EXCEPT ![b].raised = pc[b]]
    /\ Finish(b, Raise)
    /\ UNCHANGED start
    /\ NoDbChange

\* a statement of create_account raises a storage error other than
\* sqlite3.IntegrityError: no handler catches it and rollback() is not
\* called; after a failed commit SQLite has either rolled the transaction
\* back itself or left it open
CreateAccountRaise(b) ==
    /\ pc[b] \in {"ca_insert", "ca_commit"}
    /\ frame' = [frame EXCEPT ![b].raised = pc[b]]
    /\ Finish(b, Raise)
    /\ UNCHANGED start
    /\ \/ NoDbChange
       \/ Rollback(b)

\* ------------------------------------------------------------ authenticate
AuthenticateCall(b, account_no, pin) ==
    /\ Enter(b, [NoFrame EXCEPT !.op = "authenticate",
                     !.account_no = account_no, !.pin = pin], "auth_select", NoRet)
    /\ NoDbChange

\* result[0] == expected_hash
PinMatches_Always(pin_hash, pin) == TRUE

PinMatches(pin_hash, pin) == pin_hash = PinHash(pin)

\* SELECT pin_hash ... ; if not result: return False ;
\* return result[0] == expected_hash
AuthenticateSelect(b) ==
    /\ pc[b] = "auth_select"
    /\ LET f == frame[b] IN
       IF ~HasAccount(View(b), f.account_no)
       THEN Finish(b, Bool(FALSE))
       ELSE Finish(b, Bool(PinMatches(View(b).customer[f.account_no].pin_hash,
                                      f.pin)))
    /\ UNCHANGED <<frame, start>>
    /\ NoDbChange

\* a statement outside any try block raises a storage error (sqlite3.Error),
\* which reaches the caller
Uncaught(b) ==
    /\ frame' = [frame EXCEPT ![b].raised = pc[b]]
    /\ Finish(b, Raise)
    /\ UNCHANGED start
    /\ NoDbChange

AuthenticateRaise(b) ==
    /\ pc[b] = "auth_select"
    /\ Uncaught(b)

\* ------------------------------------------------------------- get_balance
GetBalanceCall(b, account_no) ==
    /\ Enter(b, [NoFrame EXCEPT !.op = "get_balance",
                     !.account_no = account_no], "bal_select", NoRet)
    /\ NoDbChange

\* SELECT balance ... ; return result[0] if result else None
GetBalanceSelect(b) ==
    /\ pc[b] = "bal_select"
    /\ LET f == frame[b] IN
       IF HasAccount(View(b), f.account_no)
       THEN Finish(b, Value(SelectBalance(View(b), f.account_no)))
       ELSE Finish(b, None)
    /\ UNCHANGED <<frame, start>>
    /\ NoDbChange

GetBalanceRaise(b) ==
    /\ pc[b] = "bal_select"
    /\ Uncaught(b)

\* ------------------------------------------------- get_transaction_history
\* ORDER BY date_time DESC: SQLite's sorter leaves rows of equal date_time in
\* the order of the table scan, which is the order of their id
OrderedBefore(r1, r2) ==
    \/ r1.date_time > r2.date_time
    \/ r1.date_time = r2.date_time /\ r1.id < r2.id

\* WHERE account_no = ? ORDER BY date_time DESC
OrderByDateTimeDesc(d, account_no) ==
    LET t == SelectSeq(d.transactions, LAMBDA r : r.account_no = account_no)
        Rank(r) == 1 + Cardinality({j \in 1 .. Len(t) : OrderedBefore(t[j], r)})
    IN [k \in 1 .. Len(t) |->
           CHOOSE r \in {t[i] : i \in 1 .. Len(t)} : Rank(r) = k]

\* LIMIT ? : a negative limit is no limit
Limit(rows, limit) ==
    IF limit < 0 \/ limit >= Len(rows) THEN rows ELSE SubSeq(rows, 1, limit)

\* SELECT id, action_type, amount, balance_after, date_time
SelectColumns(rows) ==
    [k \in 1 .. Len(rows) |->
        [id |-> rows[k].id, action_type |-> rows[k].action_type,
         amount |-> rows[k].amount, balance_after |-> rows[k].balance_after,
         date_time |-> rows[k].date_time]]

GetHistoryCall(b, account_no, limit) ==
    /\ Enter(b, [NoFrame EXCEPT !.op = "get_transaction_history",
                     !.account_no = account_no, !.limit = limit],
             "hist_select", NoRet)
    /\ NoDbChange

\* cursor.fetchall(): the rows are read; the query begins no transaction and
\* the table keeps them
FetchAll_Consume(b) ==
    ExecuteWrite(b, [View(b) EXCEPT !.transactions = <<>>])

FetchAll(b) == NoDbChange

\* cursor.execute(SELECT ...) ; rows = cursor.fetchall() ; return [...]
GetHistorySelect(b) ==
    LET same == /\ last.valid
                /\ last.account_no = frame[b].account_no
                /\ last.limit = frame[b].limit
    IN  /\ pc[b] = "hist_select"
        /\ frame' = [frame EXCEPT
               ![b].rows = SelectColumns(
                   Limit(OrderByDateTimeDesc(View(b), frame[b].account_no),
                         frame[b].limit)),
               ![b].again = same,
               ![b].before = IF same THEN last.rows ELSE <<>>]
        /\ Finish(b, Rows)
        /\ UNCHANGED start
        /\ FetchAll(b)

GetHistoryRaise(b) ==
    /\ pc[b] = "hist_select"
    /\ Uncaught(b)

\* ----------------------------------------------------------------- deposit
\* new_balance = result[0] + amount
DepositNewBalance_Off(result, amount) == result + amount + 1

DepositNewBalance(result, amount) == result + amount

\* amount <= 0
InvalidAmount_Negative(amount) == amount < 0

InvalidAmount(amount) == amount <= 0

\* if amount <= 0: return None ; otherwise a cursor is opened
DepositCall(b, account_no, amount) ==
    /\ Enter(b, [NoFrame EXCEPT !.op = "deposit", !.account_no = account_no,
                     !.amount = amount],
             IF InvalidAmount(amount) THEN "done" ELSE "dep_select",
             IF InvalidAmount(amount) THEN None ELSE NoRet)
    /\ NoDbChange

\* SELECT balance ... ; if not result: return None ; compute new_balance
DepositSelect(b) ==
    /\ pc[b] = "dep_select"
    /\ LET f == frame[b] IN
       IF ~HasAccount(View(b), f.account_no)
       THEN /\ Finish(b, None)
            /\ UNCHANGED frame
       ELSE /\ frame' = [frame EXCEPT
                   ![b].result = SelectBalance(View(b), f.account_no),
                   ![b].new_balance =
                       DepositNewBalance(SelectBalance(View(b), f.account_no),
                                         f.amount)]
            /\ Goto(b, "dep_update")
            /\ UNCHANGED ret
    /\ UNCHANGED start
    /\ NoDbChange

\* UPDATE customer SET balance = new_balance
DepositUpdate(b) ==
    /\ pc[b] = "dep_update"
    /\ ExecuteWrite(b, UpdateBalance(View(b), frame[b].account_no,
                                     frame[b].new_balance))
    /\ Goto(b, "dep_insert")
    /\ UNCHANGED <<frame, ret, start>>

\* the record written by deposit: ('Credit', amount, new_balance)
DepositRecord_Stale(d, f) ==
    InsertTransaction(d, f.account_no, "Credit", f.amount, f.result,
                      f.date_time)

DepositRecord(d, f) ==
    InsertTransaction(d, f.account_no, "Credit", f.amount, f.new_balance,
                      f.date_time)

\* date_time = datetime.now().isoformat(), the clock showing date_time ;
\* INSERT INTO transactions (...) VALUES (?, 'Credit', ?, ?, ?)
DepositInsert(b, date_time) ==
    /\ pc[b] = "dep_insert"
    /\ frame' = [frame EXCEPT ![b].date_time = date_time]
    /\ ExecuteWrite(b, DepositRecord(View(b), frame'[b]))
    /\ Goto(b, "dep_commit")
    /\ UNCHANGED <<ret, start>>

\* self.conn.commit() ; return new_balance
DepositCommit(b) ==
    /\ pc[b] = "dep_commit"
    /\ Commit(b)
    /\ Finish(b, Value(frame[b].new_balance))
    /\ UNCHANGED <<frame, start>>

\* except Exception: self.conn.rollback() ; return None
ExceptHandler(b) ==
    /\ Rollback(b)
    /\ frame' = [frame EXCEPT ![b].raised = pc[b]]
    /\ Finish(b, None)
    /\ UNCHANGED start

\* the statement about to run raises a storage error (sqlite3.Error)
DepositExcept(b) ==
    /\ pc[b] \in {"dep_select", "dep_update", "dep_insert", "dep_commit"}
    /\ ExceptHandler(b)

\* the UPDATE waits for another connection's RESERVED lock longer than the
\* timeout: sqlite3.OperationalError, caught by except Exception
DepositLocked(b) ==
    /\ pc[b] = "dep_update"
    /\ reserved \notin {0, b}
    /\ ExceptHandler(b)

\* an interruption that is not an Exception (KeyboardInterrupt, ...) arrives
\* inside the try block: only finally: cursor.close() runs, then it propagates
Interrupted(b) ==
    /\ frame' = [frame EXCEPT ![b].raised = pc[b]]
    /\ pc' = [pc EXCEPT ![b] = "done"]
    /\ ret' = [ret EXCEPT ![b] = Raise]
    /\ cancelled' = cancelled + 1
    /\ UNCHANGED <<conn, last, real>>
    /\ UNCHANGED start
    /\ NoDbChange

DepositCancel(b) ==
    /\ pc[b] \in {"dep_select", "dep_update", "dep_insert", "dep_commit"}
    /\ Interrupted(b)

\* ---------------------------------------------------------------- withdraw
\* result[0] < amount
Insufficient_Never(result, amount) == FALSE

Insufficient_Strict(result, amount) == result + 1 < amount

Insufficient_OrEqual(result, amount) == result <= amount

Insufficient(result, amount) == result < amount

\* new_balance = result[0] - amount
WithdrawNewBalance_Plus(result, amount) == result + amount

WithdrawNewBalance(result, amount) == result - amount

WithdrawCall(b, account_no, amount) ==
    /\ Enter(b, [NoFrame EXCEPT !.op = "withdraw", !.account_no = account_no,
                     !.amount = amount],
             IF InvalidAmount(amount) THEN "done" ELSE "wd_select",
             IF InvalidAmount(amount) THEN None ELSE NoRet)
    /\ NoDbChange

\* SELECT balance ... ; if not result or result[0] < amount: return None
WithdrawSelect(b) ==
    /\ pc[b] = "wd_select"
    /\ LET f == frame[b] IN
       IF \/ ~HasAccount(View(b), f.account_no)
          \/ Insufficient(SelectBalance(View(b), f.account_no), f.amount)
       THEN /\ Finish(b, None)
            /\ UNCHANGED frame
       ELSE /\ frame' = [frame EXCEPT
                   ![b].result = SelectBalance(View(b), f.account_no),
                   ![b].new_balance =
                       WithdrawNewBalance(SelectBalance(View(b), f.account_no),
                                          f.amount)]
            /\ Goto(b, "wd_update")
            /\ UNCHANGED ret
    /\ UNCHANGED start
    /\ NoDbChange

WithdrawUpdate(b) ==
    /\ pc[b] = "wd_update"
    /\ ExecuteWrite(b, UpdateBalance(View(b), frame[b].account_no,
                                     frame[b].new_balance))
    /\ Goto(b, "wd_insert")
    /\ UNCHANGED <<frame, ret, start>>

\* INSERT INTO transactions (...) VALUES (?, 'Debit', ?, ?, ?)
WithdrawInsert(b, date_time) ==
    /\ pc[b] = "wd_insert"
    /\ frame' = [frame EXCEPT ![b].date_time = date_time]
    /\ ExecuteWrite(b, InsertTransaction(View(b), frame[b].account_no, "Debit",
                                         frame[b].amount, frame[b].new_balance,
                                         date_time))
    /\ Goto(b, "wd_commit")
    /\ UNCHANGED <<ret, start>>

WithdrawCommit(b) ==
    /\ pc[b] = "wd_commit"
    /\ Commit(b)
    /\ Finish(b, Value(frame[b].new_balance))
    /\ UNCHANGED <<frame, start>>

WithdrawExcept(b) ==
    /\ pc[b] \in {"wd_select", "wd_update", "wd_insert", "wd_commit"}
    /\ ExceptHandler(b)

WithdrawLocked(b) ==
    /\ pc[b] = "wd_update"
    /\ reserved \notin {0, b}
    /\ ExceptHandler(b)

WithdrawCancel(b) ==
    /\ pc[b] \in {"wd_select", "wd_update", "wd_insert", "wd_commit"}
    /\ Interrupted(b)

\* ---------------------------------------------------------- specifications
\* calls a backend may start, with arguments drawn from the given sets; the
\* guards keep the tables within maxAccounts rows and maxTx rows
Calls(b, maxAccounts, maxTx, pins, types, accountNos, amounts) ==
    \/ /\ Len(View(b).customer) < maxAccounts
       /\ \E m \in Mobiles, e \in Emails, p \in pins, t \in types :
              CreateAccountCall(b, m, e, p, t)
    \/ /\ Len(View(b).transactions) < maxTx
       /\ \E a \in accountNos, x \in amounts : DepositCall(b, a, x)
    \/ /\ Len(View(b).transactions) < maxTx
       /\ \E a \in accountNos, x \in amounts : WithdrawCall(b, a, x)

\* ------------------------------------------ deposit and withdraw on REAL
\* deposit of tenths / 10 into the account of fractional amounts, from the
\* call to its return: lines 100-101, 106-111 and 117-118
DepositReal(tenths) ==
    LET amount == Double(tenths)
        new_balance == FloatAdd(real.balance, amount)
    IN  /\ real.ops < MaxOps
        /\ real.exact + tenths <= MaxTenths
        /\ real' = [balance |-> new_balance, exact |-> real.exact + tenths,
                    ops |-> real.ops + 1, op |-> "deposit", amount |-> tenths,
                    before |-> real.exact, ret |-> "value"]
        /\ UNCHANGED <<db, reserved, in_transaction, work, pc, frame, ret,
                       start, cancelled, conn, last>>

\* withdraw of tenths / 10: lines 128-129, 134-139 and 145-146
WithdrawReal(tenths) ==
    LET amount == Double(tenths)
    IN  /\ real.ops < MaxOps
        /\ real' = IF FloatLess(real.balance, amount)
                   THEN [real EXCEPT !.ops = real.ops + 1, !.op = "withdraw",
                                     !.amount = tenths, !.before = real.exact,
                                     !.ret = "None"]
                   ELSE [balance |-> FloatSub(real.balance, amount),
                         exact |-> real.exact - tenths,
                         ops |-> real.ops + 1, op |-> "withdraw",
                         amount |-> tenths, before |-> real.exact,
                         ret |-> "value"]
        /\ UNCHANGED <<db, reserved, in_transaction, work, pc, frame, ret,
                       start, cancelled, conn, last>>

\* the calls that only read
ReadCalls(b, pins, accountNos, limits) ==
    \/ \E a \in accountNos, p \in pins : AuthenticateCall(b, a, p)
    \/ \E a \in accountNos : GetBalanceCall(b, a)
    \/ \E a \in accountNos, l \in limits : GetHistoryCall(b, a, l)

ReadSteps(b) ==
    \/ AuthenticateSelect(b)
    \/ GetBalanceSelect(b)
    \/ GetHistorySelect(b)

\* a clock that shows a later time at every reading: the reading taken for
\* the next record of the database d
Ticking(d) == {NextTxId(d)}

\* the statements of the calls in progress; times is the set of readings the
\* clock may show
Steps(b, times) ==
    \/ CreateAccountInsert(b)
    \/ CreateAccountCommit(b)
    \/ DepositSelect(b)
    \/ DepositUpdate(b)
    \/ \E t \in times : DepositInsert(b, t)
    \/ DepositCommit(b)
    \/ WithdrawSelect(b)
    \/ WithdrawUpdate(b)
    \/ \E t \in times : WithdrawInsert(b, t)
    \/ WithdrawCommit(b)
    \/ Return(b)

\* one backend, calls one after the other, storage faults in deposit/withdraw
Next ==
    \/ Calls(1, MaxAccounts, MaxTx, {1234}, ActionTypes, AccountNos, Amounts)
    \/ Steps(1, Ticking(View(1)))
    \/ \E a \in AccountNos : GetBalanceCall(1, a)
    \/ GetBalanceSelect(1)
    \/ \E a \in AccountNos : AuthenticateCall(1, a, 1234)
    \/ AuthenticateSelect(1)
    \/ DepositExcept(1)
    \/ WithdrawExcept(1)

Spec == Init /\ [][Next]_vars

\* one backend with accounts of different PINs, and callers that authenticate
NextRead ==
    \/ Calls(1, MaxAccounts, ReadTx, Pins, {"Savings"}, 1 .. MaxAccounts, {1})
    \/ Steps(1, Ticking(View(1)))
    \/ \E a \in AccountNos, p \in Pins : AuthenticateCall(1, a, p)
    \/ AuthenticateSelect(1)

SpecRead == Init /\ [][NextRead]_vars

\* one backend whose clock may show the same or an earlier time at the next
\* reading, and callers that read the history and the balance
NextHistory ==
    \/ Calls(1, ConcAccounts, ReadTx, {1234}, {"Savings"}, 1 .. ConcAccounts, {1})
    \/ Steps(1, 0 .. MaxClock)
    \/ ReadCalls(1, {1234}, 1 .. (ConcAccounts + 1), Limits)
    \/ ReadSteps(1)

SpecHistory == Init /\ [][NextHistory]_vars

\* one caller that deposits and withdraws fractional amounts
NextReal ==
    \/ \E t \in Tenths : DepositReal(t)
    \/ \E t \in Tenths : WithdrawReal(t)

SpecReal == Init /\ [][NextReal]_vars

\* one backend, a storage fault possible at every statement of every call
NextFault ==
    \/ Calls(1, MaxAccounts, ReadTx, {1234}, {"Savings"}, 1 .. MaxAccounts,
             1 .. MaxAmount)
    \/ Steps(1, Ticking(View(1)))
    \/ ReadCalls(1, {1234}, 1 .. MaxAccounts, {1})
    \/ ReadSteps(1)
    \/ DepositExcept(1)
    \/ WithdrawExcept(1)
    \/ CreateAccountRaise(1)
    \/ AuthenticateRaise(1)
    \/ GetBalanceRaise(1)
    \/ GetHistoryRaise(1)

SpecFault == Init /\ [][NextFault]_vars

\* one backend whose caller may call close() between two calls
NextClose ==
    \/ Calls(1, MaxAccounts, ReadTx, {1234}, {"Savings"}, AccountNos, Amounts)
    \/ Steps(1, Ticking(View(1)))
    \/ ReadCalls(1, Pins, AccountNos, {1})
    \/ ReadSteps(1)
    \/ Close(1)

SpecClose == Init /\ [][NextClose]_vars

\* two backends on the same database file, running concurrently
NextConc ==
    \E b \in Backends :
        \/ Calls(b, ConcAccounts, ConcTx, {1234}, {"Savings"},
                 1 .. ConcAccounts, 1 .. MaxAmount)
        \/ Steps(b, Ticking(View(b)))
        \/ CreateAccountLocked(b)
        \/ DepositLocked(b)
        \/ WithdrawLocked(b)

SpecConc == Init /\ [][NextConc]_vars

\* one backend whose caller may abandon a deposit or withdraw in flight, at
\* most MaxCancel times
NextCancel ==
    \/ Calls(1, MaxAccounts, CancelTx, {1234}, {"Savings"}, 1 .. MaxAccounts,
             1 .. MaxAmount)
    \/ Steps(1, Ticking(View(1)))
    \/ cancelled < MaxCancel /\ DepositCancel(1)
    \/ cancelled < MaxCancel /\ WithdrawCancel(1)

SpecCancel == Init /\ [][NextCancel]_vars

\* ------------------------------------------------- vocabulary of the claims
Accounts(d) == 1 .. Len(d.customer)

\* the records of account a, in creation order
AccountTxs(d, a) == SelectSeq(d.transactions, LAMBDA r : r.account_no = a)

Signed(r) == IF r.action_type = "Credit" THEN r.amount ELSE 0 - r.amount

\* the balance obtained by applying the records of account a, in creation
\* order, to 0
RECURSIVE Replay(_, _)
Replay(txs, a) ==
    IF txs = <<>> THEN 0
    ELSE LET r == txs[Len(txs)] IN
         Replay(SubSeq(txs, 1, Len(txs) - 1), a)
             + (IF r.account_no = a THEN Signed(r) ELSE 0)

\* every balance change of the database d has its record and every record
\* its balance change: the records of an account chain from 0 to its balance
Paired(d) ==
    \A a \in Accounts(d) :
        LET t == AccountTxs(d, a) IN
        /\ \A i \in 1 .. Len(t) :
               t[i].balance_after =
                   (IF i = 1 THEN 0 ELSE t[i - 1].balance_after) + Signed(t[i])
        /\ d.customer[a].balance =
               (IF Len(t) = 0 THEN 0 ELSE t[Len(t)].balance_after)

MidOperation(b) ==
    pc[b] \in {"dep_select", "dep_update", "dep_insert", "dep_commit",
               "wd_select", "wd_update", "wd_insert", "wd_commit"}

Completed(b) == pc[b] \in {"idle", "done"}

\* C1: once the calls made on a backend have completed, the balance of every
\* account equals the sum of the amounts of its Credit records minus the sum
\* of the amounts of its Debit records
C1_Conservation ==
    \A b \in Backends :
        Completed(b) =>
            \A a \in Accounts(View(b)) :
                View(b).customer[a].balance = Replay(View(b).transactions, a)

C1_Witness ==
    /\ pc[1] = "done"
    /\ frame[1].op = "withdraw"
    /\ ret[1].kind = "None"
    /\ \E i, j \in 1 .. Len(db.transactions) :
           /\ db.transactions[i].action_type = "Credit"
           /\ db.transactions[j].action_type = "Debit"
           /\ db.transactions[i].account_no = db.transactions[j].account_no

\* C2: whenever no deposit or withdraw is in progress, the balance_after of
\* the most recently created record of an account is the account's balance
C2_LastBalanceAfter ==
    \A b \in Backends :
        ~MidOperation(b) =>
            \A a \in Accounts(View(b)) :
                LET t == AccountTxs(View(b), a) IN
                Len(t) > 0 =>
                    t[Len(t)].balance_after = View(b).customer[a].balance

C2_Witness ==
    /\ pc[1] = "idle"
    /\ \E a \in Accounts(db) :
           /\ Len(AccountTxs(db, a)) >= 2
           /\ db.customer[a].balance > 0

\* C3: deposits and withdrawals on an account through two connections are
\* indivisible: no committed update is lost, so whenever both backends have
\* completed their calls the committed balance of every account is the sum
\* of its committed credits minus the sum of its committed debits
C3_NoLostUpdate ==
    (\A b \in Backends : Completed(b)) =>
        \A a \in Accounts(db) :
            db.customer[a].balance = Replay(db.transactions, a)

\* C4: a storage fault after the balance write and before the commit makes
\* the call fail and leaves balance and log as they were when the call began;
\* the committed database never holds a balance change without its record or
\* a record without its balance change
C4_FaultAtomicity ==
    /\ \A b \in Backends :
           /\ pc[b] = "done"
           /\ frame[b].raised \in {"dep_insert", "dep_commit",
                                   "wd_insert", "wd_commit"}
           => /\ ret[b] = None
              /\ db = start[b]
              /\ View(b) = start[b]
    /\ Paired(db)

C4_Witness ==
    /\ pc[1] = "done"
    /\ frame[1].raised \in {"dep_insert", "wd_insert"}
    /\ ret[1] = None
    /\ Len(db.transactions) > 0

\* C5: after a caller has abandoned a deposit or withdraw in flight, the
\* committed database never holds a balance change without its record or a
\* record without its balance change, whatever is committed later
C5_CancelResolved == cancelled > 0 => Paired(db)

\* C6: no balance, committed or seen by a backend, is ever negative
C6_NonNegative ==
    /\ \A a \in Accounts(db) : db.customer[a].balance >= 0
    /\ \A b \in Backends :
           \A a \in Accounts(View(b)) : View(b).customer[a].balance >= 0

C6_Witness ==
    /\ pc[1] = "done"
    /\ frame[1].op = "withdraw"
    /\ ret[1] = Value(0)
    /\ Len(db.transactions) >= 2

\* C7: a withdraw of more than the account's balance returns None, leaves the
\* database as it was and appends no record
C7_InsufficientFunds ==
    \A b \in Backends :
        /\ pc[b] = "done"
        /\ frame[b].op = "withdraw"
        /\ HasAccount(start[b], frame[b].account_no)
        /\ frame[b].amount > SelectBalance(start[b], frame[b].account_no)
        => /\ ret[b] = None
           /\ db = start[b]
           /\ View(b) = start[b]

C7_Witness ==
    /\ pc[1] = "done"
    /\ frame[1].op = "withdraw"
    /\ HasAccount(start[1], frame[1].account_no)
    /\ SelectBalance(start[1], frame[1].account_no) > 0
    /\ frame[1].amount > SelectBalance(start[1], frame[1].account_no)
    /\ frame[1].raised = ""

\* the database d after one record (action_type, amount, new_balance) of
\* account a has been appended and the balance of a set to new_balance
Applied(d, a, action_type, amount, new_balance, date_time) ==
    [customer |-> [d.customer EXCEPT ![a].balance = new_balance],
     transactions |-> Append(d.transactions,
         [id |-> Len(d.transactions) + 1, account_no |-> a,
          action_type |-> action_type, amount |-> amount,
          balance_after |-> new_balance, date_time |-> date_time])]

\* C8: a successful deposit returns current + amount, a successful withdraw
\* current - amount (with 0 < amount <= current); the balance is set to the
\* returned value and exactly one Credit (Debit) record with that amount and
\* balance_after is appended
C8_SuccessfulUpdate ==
    \A b \in Backends :
        /\ pc[b] = "done"
        /\ frame[b].op \in {"deposit", "withdraw"}
        /\ ret[b].kind = "value"
        => LET a == frame[b].account_no
               current == SelectBalance(start[b], a)
               new == IF frame[b].op = "deposit"
                      THEN current + frame[b].amount
                      ELSE current - frame[b].amount
           IN /\ HasAccount(start[b], a)
              /\ frame[b].amount > 0
              /\ frame[b].op = "withdraw" => frame[b].amount <= current
              /\ ret[b].val = new
              /\ db = Applied(start[b], a,
                              IF frame[b].op = "deposit" THEN "Credit"
                              ELSE "Debit",
                              frame[b].amount, new, frame[b].date_time)
              /\ View(b) = db

C8_Witness ==
    /\ pc[1] = "done"
    /\ frame[1].op = "withdraw"
    /\ ret[1].kind = "value"
    /\ ret[1].val > 0
    /\ \E i \in 1 .. Len(db.transactions) :
           /\ db.transactions[i].action_type = "Credit"
           /\ db.transactions[i].balance_after = db.transactions[i].amount

\* account numbers, mobile numbers and emails of d are pairwise distinct
Distinct(d) ==
    \A i, j \in Accounts(d) :
        i # j => /\ d.customer[i].account_no # d.customer[j].account_no
                 /\ d.customer[i].mobile_no # d.customer[j].mobile_no
                 /\ d.customer[i].email # d.customer[j].email

\* C9: account numbers, mobile numbers and emails are pairwise distinct, and
\* a create_account whose mobile or email is already taken returns None and
\* leaves the database as it was
C9_UniqueIdentity ==
    /\ Distinct(db)
    /\ \A b \in Backends :
           /\ Distinct(View(b))
           /\ (/\ pc[b] = "done"
               /\ frame[b].op = "create_account"
               /\ UniqueViolation(start[b], frame[b].mobile_no, frame[b].email)
               => /\ ret[b] = None
                  /\ db = start[b]
                  /\ View(b) = start[b])

C9_Witness ==
    /\ pc[1] = "done"
    /\ frame[1].op = "create_account"
    /\ ret[1] = None
    /\ ValidActionType(frame[1].action_type)
    /\ \E i \in Accounts(db) :
           /\ db.customer[i].mobile_no = frame[1].mobile_no
           /\ db.customer[i].email # frame[1].email
    /\ \A i \in Accounts(db) : db.customer[i].email # frame[1].email
    /\ Len(db.transactions) > 0

\* C10: of two create_account calls with the same mobile number that run
\* concurrently on two connections, exactly one returns an account number
\* and the other returns None
C10_UniquenessRace ==
    /\ pc[1] = "done"
    /\ pc[2] = "done"
    /\ frame[1].op = "create_account"
    /\ frame[2].op = "create_account"
    /\ frame[1].mobile_no = frame[2].mobile_no
    /\ ~UniqueViolation(start[1], frame[1].mobile_no, frame[1].email)
    /\ ~UniqueViolation(start[2], frame[2].mobile_no, frame[2].email)
    => {ret[1].kind, ret[2].kind} = {"value", "None"}

\* the digest stored for a PIN
DigestOf(pin) == <<"sha256", ToString(pin)>>

\* C11: create_account stores the digest of the PIN it is given, and
\* authenticate returns True exactly when the account exists and the digest
\* of the supplied PIN is the stored one, False for a wrong PIN and False,
\* not an error, for an unknown account
C11_Authenticate ==
    \A b \in Backends :
        /\ (/\ pc[b] = "done"
            /\ frame[b].op = "create_account"
            /\ ret[b].kind = "value"
            => /\ HasAccount(db, ret[b].val)
               /\ ~HasAccount(start[b], ret[b].val)
               /\ db.customer[ret[b].val].pin_hash = DigestOf(frame[b].pin))
        /\ (/\ pc[b] = "done"
            /\ frame[b].op = "authenticate"
            => ret[b] = Bool(/\ HasAccount(db, frame[b].account_no)
                             /\ db.customer[frame[b].account_no].pin_hash
                                    = DigestOf(frame[b].pin)))

C11_Witness ==
    /\ pc[1] = "done"
    /\ frame[1].op = "authenticate"
    /\ ret[1] = Bool(FALSE)
    /\ HasAccount(db, frame[1].account_no)
    /\ \E a \in Accounts(db) : db.customer[a].pin_hash = DigestOf(frame[1].pin)

\* C12: for limit >= 1 get_transaction_history returns min(limit, n) records
\* of the account, the most recently created one first and each later entry
\* created before the one preceding it, whatever the timestamps
C12_NewestFirst ==
    \A b \in Backends :
        /\ pc[b] = "done"
        /\ frame[b].op = "get_transaction_history"
        /\ ret[b].kind = "rows"
        /\ frame[b].limit >= 1
        => LET t == AccountTxs(start[b], frame[b].account_no)
               rows == frame[b].rows
           IN /\ Len(rows) = (IF frame[b].limit < Len(t) THEN frame[b].limit
                              ELSE Len(t))
              /\ \A i \in 1 .. Len(rows) :
                     \E j \in 1 .. Len(t) : t[j].id = rows[i].id
              /\ Len(t) > 0 => rows[1].id = t[Len(t)].id
              /\ \A i \in 1 .. Len(rows) - 1 : rows[i + 1].id < rows[i].id

\* C13: a deposit or withdraw with amount <= 0 returns None without running
\* any statement, and one on an unknown account returns None; in both cases
\* the database is as it was, with no account added
C13_RejectedCalls ==
    \A b \in Backends :
        /\ MidOperation(b) => frame[b].amount > 0
        /\ (/\ pc[b] = "done"
            /\ frame[b].op \in {"deposit", "withdraw"}
            /\ \/ frame[b].amount <= 0
               \/ ~HasAccount(start[b], frame[b].account_no)
            => /\ ret[b] = None
               /\ db = start[b]
               /\ View(b) = start[b])

C13_Witness ==
    /\ pc[1] = "done"
    /\ frame[1].op = "deposit"
    /\ frame[1].amount > 0
    /\ ~HasAccount(start[1], frame[1].account_no)
    /\ Len(db.transactions) > 0

\* C15: a committed record stays in the log unchanged, and a newly committed
\* record has an id greater than that of every record created before it
C15_AppendOnly ==
    [][/\ Len(db'.transactions) >= Len(db.transactions)
       /\ SubSeq(db'.transactions, 1, Len(db.transactions)) = db.transactions
       /\ \A i \in (Len(db.transactions) + 1) .. Len(db'.transactions) :
              \A j \in 1 .. (i - 1) :
                  db'.transactions[j].id < db'.transactions[i].id]_vars

C15_Witness ==
    /\ Len(db.transactions) >= 2
    /\ pc[1] = "done"
    /\ frame[1].raised # ""

\* C18: a deposit or withdraw leaves the rows and records of every other
\* account as they were; authenticate and get_balance leave the database as
\* it was; get_balance returns the committed balance of an existing account
\* and None for an unknown one
C18_Frame ==
    \A b \in Backends :
        /\ (/\ pc[b] = "done"
            /\ frame[b].op \in {"deposit", "withdraw"}
            => /\ Len(db.customer) = Len(start[b].customer)
               /\ \A a \in Accounts(start[b]) :
                      a # frame[b].account_no =>
                          /\ db.customer[a] = start[b].customer[a]
                          /\ AccountTxs(db, a) = AccountTxs(start[b], a))
        /\ (/\ pc[b] = "done"
            /\ frame[b].op \in {"authenticate", "get_balance"}
            => /\ db = start[b]
               /\ View(b) = start[b])
        /\ (/\ pc[b] = "done"
            /\ frame[b].op = "get_balance"
            => ret[b] = (IF HasAccount(db, frame[b].account_no)
                         THEN Value(db.customer[frame[b].account_no].balance)
                         ELSE None))

C18_Witness ==
    /\ pc[1] = "done"
    /\ frame[1].op = "withdraw"
    /\ ret[1].kind = "value"
    /\ \E a \in Accounts(db) :
           /\ a # frame[1].account_no
           /\ db.customer[a].balance > 0

\* C19: a withdraw of exactly the balance succeeds, returns 0, leaves the
\* balance at 0 and appends one Debit record with balance_after = 0; a
\* withdraw on an existing account is rejected for its amount only when the
\* amount is greater than the balance
C19_ExactBalance ==
    \A b \in Backends :
        /\ pc[b] = "done"
        /\ frame[b].op = "withdraw"
        /\ frame[b].raised = ""
        /\ frame[b].amount > 0
        /\ HasAccount(start[b], frame[b].account_no)
        => LET current == SelectBalance(start[b], frame[b].account_no) IN
           /\ frame[b].amount = current =>
                  /\ ret[b] = Value(0)
                  /\ db = Applied(start[b], frame[b].account_no, "Debit",
                                  frame[b].amount, 0, frame[b].date_time)
           /\ ret[b] = None => frame[b].amount > current

C19_Witness ==
    /\ pc[1] = "done"
    /\ frame[1].op = "withdraw"
    /\ frame[1].raised = ""
    /\ HasAccount(start[1], frame[1].account_no)
    /\ frame[1].amount = SelectBalance(start[1], frame[1].account_no)
    /\ frame[1].amount = MaxAmount
    /\ ret[1].kind = "value"

\* C14: a storage fault raised by a statement of any call is recovered inside
\* the call: the call returns a failure value, raises nothing and leaves the
\* database as it was
C14_FaultsRecovered ==
    \A b \in Backends :
        /\ pc[b] = "done"
        /\ frame[b].raised # ""
        => /\ ret[b].kind # "raise"
           /\ db = start[b]
           /\ View(b) = start[b]

\* C20: close() leaves the committed database as it was and the backend
\* without connection or transaction, also when called twice; the next call
\* reconnects, raises nothing and sees the committed database: get_balance
\* returns the committed balance and a successful deposit adds to it
C20_CloseTransparent ==
    \A b \in Backends :
        /\ conn[b] = "none" => ~in_transaction[b] /\ reserved # b
        /\ pc[b] \notin {"idle", "done"} => conn[b] = "open"
        /\ pc[b] = "done" =>
               /\ ret[b].kind # "raise"
               /\ frame[b].op = "close" =>
                      /\ conn[b] = "none"
                      /\ db = start[b]
                      /\ View(b) = start[b]
               /\ frame[b].op = "get_balance" =>
                      ret[b] = (IF HasAccount(db, frame[b].account_no)
                                THEN Value(SelectBalance(db, frame[b].account_no))
                                ELSE None)
               /\ (frame[b].op = "deposit" /\ ret[b].kind = "value") =>
                      /\ ret[b].val = SelectBalance(start[b], frame[b].account_no)
                                          + frame[b].amount
                      /\ db = Applied(start[b], frame[b].account_no, "Credit",
                                      frame[b].amount, ret[b].val,
                                      frame[b].date_time)

C20_Witness ==
    /\ pc[1] = "done"
    /\ frame[1].op = "get_balance"
    /\ frame[1].reopened
    /\ ret[1].kind = "value"
    /\ ret[1].val > 0

\* C16: get_transaction_history changes no account, balance or record, and a
\* call with the account and limit of the previous history call, with no
\* create_account, deposit or withdraw since, returns the same rows in the
\* same order
C16_IdempotentHistory ==
    \A b \in Backends :
        (pc[b] = "done" /\ frame[b].op = "get_transaction_history"
                        /\ ret[b] = Rows) =>
            /\ db = start[b]
            /\ View(b) = start[b]
            /\ frame[b].again => frame[b].rows = frame[b].before

C16_Witness ==
    /\ pc[1] = "done"
    /\ frame[1].op = "get_transaction_history"
    /\ ret[1] = Rows
    /\ frame[1].again
    /\ Len(frame[1].rows) >= 2
    /\ frame[1].rows[1].date_time = frame[1].rows[2].date_time

\* C17: after any deposits and withdrawals of decimal amounts the balance is
\* the decimal sum of the accepted amounts, as closely as the column can hold
\* it, and a withdraw is refused exactly when the amount exceeds that sum
C17_ExactDecimal ==
    /\ real.balance = Double(real.exact)
    /\ real.op = "withdraw" => (real.ret = "None" <=> real.before < real.amount)

====
